---------------------------- MODULE Spec2Model ----------------------------
(* Model of the chunked structured-extraction service                      *)
(* (src/server/crawl4ai_service/main.py): chunk_text, the result parser,   *)
(* dedupe_rows and the /extract handler.                                   *)
EXTENDS Integers, Sequences, FiniteSets, TLC

VARIABLES
    \* chunk_text, run as a loop (SpecChunk)
    ck_text, ck_window, ck_overlap, ck_pc, ck_start, ck_step, ck_chunks,
    ck_spans, ck_iters,
    \* dedupe_rows, applied once and then to its own output (SpecDedupe)
    dd_rows, dd_pc, dd_out, dd_out2,
    \* the parsing of one model output, call_openai_extract lines 179-191 (SpecParse)
    ps_text, ps_pc, ps_cands, ps_k, ps_rows,
    \* the service and its /extract handler (Spec)
    api_key,          \* whether OPENAI_API_KEY is set
    pc,               \* where the handler is
    req,              \* the request being served
    per_url_target, results, url_i, chunks, chunk_i, accumulated,
    response,
    fetches,          \* per URL entry: how often fetch_url was called for it
    fetch_status,     \* per URL entry: "pending", "failed", "empty" or "ok"
    sent,             \* chunks of the current URL passed to call_openai_extract
    met_at,           \* the chunk after which the current URL met its target, or 0
    last_call,        \* what the last call_openai_extract met and how many requests it sent
    outputs,          \* the rows call_openai_extract returned for the current URL, chunk by chunk
    \* what of one page's text goes into the prompts of its chunks (SpecPrompt)
    pm_chunking, pm_n, pm_pc, pm_chunks, pm_k, pm_prompts

ddVars == <<dd_rows, dd_pc, dd_out, dd_out2>>

exVars == <<api_key, pc, req, per_url_target, results, url_i, chunks, chunk_i,
            accumulated, response, fetches, fetch_status, sent, met_at,
            last_call, outputs>>

psVars == <<ps_text, ps_pc, ps_cands, ps_k, ps_rows>>

ckVars == <<ck_text, ck_window, ck_overlap, ck_pc, ck_start, ck_step,
            ck_chunks, ck_spans, ck_iters>>

pmVars == <<pm_chunking, pm_n, pm_pc, pm_chunks, pm_k, pm_prompts>>

vars == <<ckVars, ddVars, psVars, exVars, pmVars>>

Min(a, b) == IF a <= b THEN a ELSE b

Max(a, b) == IF a >= b THEN a ELSE b

\* Python's slice index i clipped to 0..n (a negative index counts from the end)
py_index(i, n) == IF i < 0 THEN Max(0, i + n) ELSE Min(i, n)

\* Python's s[start:end]
py_slice(s, start, end) ==
    SubSeq(s, py_index(start, Len(s)) + 1, py_index(end, Len(s)))

(***************************************************************************)
(* chunk_text                                                              *)
(***************************************************************************)

\* Bounds of the chunker's inputs
MaxTextLen == 6

MaxWindowArg == 4

MaxOverlapArg == 5

Chars == {"a", "b"}

RECURSIVE SeqsUpTo(_, _)
SeqsUpTo(S, n) ==
    IF n = 0 THEN {<<>>}
    ELSE LET shorter == SeqsUpTo(S, n - 1)
         IN  shorter \cup {Append(s, x) : s \in {t \in shorter : Len(t) = n - 1}, x \in S}

\* step = max(1, window - overlap): a step without the overlap subtracted
chunk_step_nooverlap(window, overlap) == Max(1, window)

\* step = window - overlap, not clamped to 1
chunk_step_noclamp(window, overlap) == window - overlap

chunk_step(window, overlap) == Max(1, window - overlap)

\* The end of a chunk not held back at the end of the text
chunk_end_unclamped(n, start, window) == start + window

chunk_end(n, start, window) == Min(n, start + window)

\* The spans [start, end) of the chunks of a text of length n
RECURSIVE chunk_spans_from(_, _, _, _)
chunk_spans_from(n, window, step, start) ==
    IF start < n
    THEN LET end == chunk_end(n, start, window)
         IN  <<<<start, end>>>> \o
             (IF end >= n THEN <<>>
              ELSE chunk_spans_from(n, window, step, start + step))
    ELSE <<>>

chunk_spans(n, window, overlap) ==
    IF window <= 0 THEN <<<<0, n>>>>
    ELSE chunk_spans_from(n, window, chunk_step(window, overlap), 0)

chunk_text(text, window, overlap) ==
    LET spans == chunk_spans(Len(text), window, overlap)
    IN  [k \in 1..Len(spans) |-> py_slice(text, spans[k][1], spans[k][2])]

ChunkInit ==
    /\ ck_text \in SeqsUpTo(Chars, MaxTextLen)
    /\ ck_window \in -1..MaxWindowArg
    /\ ck_overlap \in 0..MaxOverlapArg
    /\ ck_pc = "call"
    /\ ck_start = 0
    /\ ck_step = 0
    /\ ck_chunks = <<>>
    /\ ck_spans = <<>>
    /\ ck_iters = 0

ChunkIdle ==
    /\ ck_text = <<>>
    /\ ck_window = 0
    /\ ck_overlap = 0
    /\ ck_pc = "idle"
    /\ ck_start = 0
    /\ ck_step = 0
    /\ ck_chunks = <<>>
    /\ ck_spans = <<>>
    /\ ck_iters = 0

\* lines 78-79: window <= 0 returns the whole text as one chunk
ChunkWhole ==
    /\ ck_pc = "call"
    /\ ck_window <= 0
    /\ ck_chunks' = <<ck_text>>
    /\ ck_spans' = <<<<0, Len(ck_text)>>>>
    /\ ck_pc' = "done"
    /\ UNCHANGED <<ck_text, ck_window, ck_overlap, ck_start, ck_step, ck_iters>>

\* lines 80-83: loop set-up
ChunkEnter ==
    /\ ck_pc = "call"
    /\ ck_window > 0
    /\ ck_start' = 0
    /\ ck_step' = chunk_step(ck_window, ck_overlap)
    /\ ck_chunks' = <<>>
    /\ ck_spans' = <<>>
    /\ ck_pc' = "loop"
    /\ UNCHANGED <<ck_text, ck_window, ck_overlap, ck_iters>>

\* lines 84-89: one iteration of the while loop
ChunkIter ==
    /\ ck_pc = "loop"
    /\ ck_start < Len(ck_text)
    /\ LET end == chunk_end(Len(ck_text), ck_start, ck_window)
       IN  /\ ck_chunks' = Append(ck_chunks, py_slice(ck_text, ck_start, end))
           /\ ck_spans' = Append(ck_spans, <<ck_start, end>>)
           /\ IF end >= Len(ck_text)
              THEN ck_pc' = "done" /\ ck_start' = ck_start
              ELSE ck_pc' = "loop" /\ ck_start' = ck_start + ck_step
    /\ ck_iters' = ck_iters + 1
    /\ UNCHANGED <<ck_text, ck_window, ck_overlap, ck_step>>

\* line 84 false, line 90: the loop condition fails and the chunks are returned
ChunkExit ==
    /\ ck_pc = "loop"
    /\ ck_start >= Len(ck_text)
    /\ ck_pc' = "done"
    /\ UNCHANGED <<ck_text, ck_window, ck_overlap, ck_start, ck_step,
                   ck_chunks, ck_spans, ck_iters>>

(***************************************************************************)
(* JSON values and json.dumps                                              *)
(*                                                                         *)
(* A text is a sequence of tokens.  The tokens "a", "b" and "rows" stand   *)
(* for the JSON string literals of those names, "1" and "2" for number     *)
(* literals, "x" for a word of prose, "fence_json" for the opening of a    *)
(* fenced json block and "fence" for a bare code fence; the rest are       *)
(* JSON punctuation.  A Python dict keeps its keys in insertion order:     *)
(* keys and items are parallel sequences.                                  *)
(***************************************************************************)

Scalar(tok) == [t |-> "scalar", s |-> tok, keys |-> <<>>, items |-> <<>>]

List(items) == [t |-> "list", s |-> "", keys |-> <<>>, items |-> items]

Dict(keys, items) == [t |-> "dict", s |-> "", keys |-> keys, items |-> items]

\* Python's order of the key strings
KeyRank(k) == CASE k = "a" -> 1 [] k = "b" -> 2 [] k = "rows" -> 3 [] OTHER -> 4

\* The index in 1..Len(keys) of the least key among those not in done
LeastIdx(keys, done) ==
    CHOOSE i \in (1..Len(keys)) \ done :
        \A j \in (1..Len(keys)) \ done : KeyRank(keys[i]) <= KeyRank(keys[j])

\* The indices of keys in the order sorted(keys) visits them
RECURSIVE SortedIdx(_, _)
SortedIdx(keys, done) ==
    IF Cardinality(done) = Len(keys) THEN <<>>
    ELSE LET i == LeastIdx(keys, done)
         IN  <<i>> \o SortedIdx(keys, done \cup {i})

\* json.dumps(v, sort_keys=...) as a token sequence
RECURSIVE json_dumps(_, _)
RECURSIVE DumpItems(_, _, _)
RECURSIVE DumpMembers(_, _, _, _)
DumpItems(items, k, sort_keys) ==
    IF k > Len(items) THEN <<>>
    ELSE (IF k > 1 THEN <<",">> ELSE <<>>) \o json_dumps(items[k], sort_keys)
         \o DumpItems(items, k + 1, sort_keys)

DumpMembers(v, order, k, sort_keys) ==
    IF k > Len(order) THEN <<>>
    ELSE (IF k > 1 THEN <<",">> ELSE <<>>)
         \o <<v.keys[order[k]], ":">> \o json_dumps(v.items[order[k]], sort_keys)
         \o DumpMembers(v, order, k + 1, sort_keys)

json_dumps(v, sort_keys) ==
    CASE v.t = "scalar" -> <<v.s>>
      [] v.t = "list" -> <<"[">> \o DumpItems(v.items, 1, sort_keys) \o <<"]">>
      [] OTHER ->
           LET order == IF sort_keys THEN SortedIdx(v.keys, {})
                        ELSE [i \in 1..Len(v.keys) |-> i]
           IN  <<"{">> \o DumpMembers(v, order, 1, sort_keys) \o <<"}">>

(***************************************************************************)
(* dedupe_rows                                                             *)
(***************************************************************************)

\* Bound of the deduplicator's input
MaxRows == 3

\* key = json.dumps(r) without sort_keys
row_key_unsorted(r) == json_dumps(r, FALSE)

\* line 198: key = json.dumps(r, sort_keys=True)
row_key(r) == json_dumps(r, TRUE)

\* lines 195-203
RECURSIVE dedupe_from(_, _, _, _)
dedupe_from(rows, k, seen, out) ==
    IF k > Len(rows) THEN out
    ELSE LET key == row_key(rows[k])
         IN  IF key \in seen
             THEN dedupe_from(rows, k + 1, seen, out)
             ELSE dedupe_from(rows, k + 1, seen \cup {key}, Append(out, rows[k]))

dedupe_rows(rows) == dedupe_from(rows, 1, {}, <<>>)

RowVals == {Scalar("1"), Scalar("2")}

NestedAB == Dict(<<"a", "b">>, <<Scalar("1"), Scalar("2")>>)

NestedBA == Dict(<<"b", "a">>, <<Scalar("2"), Scalar("1")>>)

\* Rows over the keys a and b in either insertion order, and two rows whose
\* value is a nested mapping written in two key orders
RowUniverse ==
    {Dict(<<>>, <<>>)}
    \cup {Dict(<<k>>, <<v>>) : k \in {"a", "b"}, v \in RowVals}
    \cup {Dict(<<"a", "b">>, <<v, w>>) : v \in RowVals, w \in RowVals}
    \cup {Dict(<<"b", "a">>, <<v, w>>) : v \in RowVals, w \in RowVals}
    \cup {Dict(<<"a">>, <<NestedAB>>), Dict(<<"a">>, <<NestedBA>>)}

DedupeInit ==
    /\ dd_rows \in SeqsUpTo(RowUniverse, MaxRows)
    /\ dd_pc = "call"
    /\ dd_out = <<>>
    /\ dd_out2 = <<>>

DedupeIdle ==
    /\ dd_rows = <<>>
    /\ dd_pc = "idle"
    /\ dd_out = <<>>
    /\ dd_out2 = <<>>

\* dedupe_rows(rows)
DedupeCall ==
    /\ dd_pc = "call"
    /\ dd_out' = dedupe_rows(dd_rows)
    /\ dd_pc' = "once"
    /\ UNCHANGED <<dd_rows, dd_out2>>

\* dedupe_rows applied to its own output
DedupeAgain ==
    /\ dd_pc = "once"
    /\ dd_out2' = dedupe_rows(dd_out)
    /\ dd_pc' = "twice"
    /\ UNCHANGED <<dd_rows, dd_out>>

(***************************************************************************)
(* json.loads, safe_parse_rows, extract_json_candidates                    *)
(***************************************************************************)

StrToks == {"a", "b", "rows"}

NumToks == {"1", "2"}

ScalarToks == StrToks \cup NumToks

\* The outcome of a failed parse step
NoParse == [ok |-> FALSE, val |-> Scalar(""), next |-> 0]

Parsed(v, next) == [ok |-> TRUE, val |-> v, next |-> next]

\* d[k] = v on an insertion-ordered dict: a repeated key keeps its place
DictPut(keys, items, k, v) ==
    IF \E i \in 1..Len(keys) : keys[i] = k
    THEN <<keys, [i \in 1..Len(items) |-> IF keys[i] = k THEN v ELSE items[i]]>>
    ELSE <<Append(keys, k), Append(items, v)>>

\* JSON's grammar over the tokens: value, then the rest of an array after
\* "[" or a ",", then the rest of an object after "{" or a ","
RECURSIVE ParseValue(_, _)
RECURSIVE ParseElems(_, _, _)
RECURSIVE ParseMembers(_, _, _, _)
ParseValue(toks, i) ==
    IF i > Len(toks) THEN NoParse
    ELSE CASE toks[i] \in ScalarToks -> Parsed(Scalar(toks[i]), i + 1)
           [] toks[i] = "[" ->
                IF i + 1 <= Len(toks) /\ toks[i + 1] = "]"
                THEN Parsed(List(<<>>), i + 2)
                ELSE ParseElems(toks, i + 1, <<>>)
           [] toks[i] = "{" ->
                IF i + 1 <= Len(toks) /\ toks[i + 1] = "}"
                THEN Parsed(Dict(<<>>, <<>>), i + 2)
                ELSE ParseMembers(toks, i + 1, <<>>, <<>>)
           [] OTHER -> NoParse

ParseElems(toks, i, items) ==
    LET r == ParseValue(toks, i)
    IN  IF ~r.ok \/ r.next > Len(toks) THEN NoParse
        ELSE CASE toks[r.next] = "," -> ParseElems(toks, r.next + 1, Append(items, r.val))
               [] toks[r.next] = "]" -> Parsed(List(Append(items, r.val)), r.next + 1)
               [] OTHER -> NoParse

ParseMembers(toks, i, keys, items) ==
    IF i + 1 > Len(toks) \/ toks[i] \notin StrToks \/ toks[i + 1] # ":" THEN NoParse
    ELSE LET r == ParseValue(toks, i + 2)
         IN  IF ~r.ok \/ r.next > Len(toks) THEN NoParse
             ELSE LET d == DictPut(keys, items, toks[i], r.val)
                  IN  CASE toks[r.next] = "," -> ParseMembers(toks, r.next + 1, d[1], d[2])
                        [] toks[r.next] = "}" -> Parsed(Dict(d[1], d[2]), r.next + 1)
                        [] OTHER -> NoParse

\* The exception json.loads raises on a text that is not one JSON value
JsonError == [t |-> "raise", s |-> "", keys |-> <<>>, items |-> <<>>]

\* line 124: json.loads(text)
json_loads(text) ==
    LET r == ParseValue(text, 1)
    IN  IF r.ok /\ r.next = Len(text) + 1 THEN r.val ELSE JsonError

IsDict(x) == x.t = "dict"

\* d[k] for a key the dict holds
DictGet(d, k) == d.items[CHOOSE i \in 1..Len(d.keys) : d.keys[i] = k]

\* safe_parse_rows returning the parsed list as it is, non-mappings included
safe_parse_rows_unfiltered(text) ==
    LET parsed == json_loads(text)
    IN  CASE parsed.t = "list" -> parsed.items
          [] parsed.t = "dict" ->
               IF (\E i \in 1..Len(parsed.keys) : parsed.keys[i] = "rows")
                  /\ DictGet(parsed, "rows").t = "list"
               THEN DictGet(parsed, "rows").items
               ELSE <<>>
          [] OTHER -> <<>>

\* lines 122-134
safe_parse_rows(text) ==
    LET parsed == json_loads(text)
    IN  CASE parsed.t = "raise" -> <<>>
          [] parsed.t = "list" -> SelectSeq(parsed.items, IsDict)
          [] parsed.t = "dict" ->
               IF (\E i \in 1..Len(parsed.keys) : parsed.keys[i] = "rows")
                  /\ DictGet(parsed, "rows").t = "list"
               THEN SelectSeq(DictGet(parsed, "rows").items, IsDict)
               ELSE <<>>
          [] OTHER -> <<>>

\* The least index >= pos of a token in S, 0 when there is none
FindFrom(toks, pos, S) ==
    IF \E i \in pos..Len(toks) : toks[i] \in S
    THEN CHOOSE i \in pos..Len(toks) :
            toks[i] \in S /\ \A j \in pos..(i - 1) : toks[j] \notin S
    ELSE 0

\* re.findall of a non-greedy "open ... close" pattern: the leftmost opener,
\* the nearest closer after it, then on from behind that closer.  With
\* inner, the match's group is what lies strictly between the two.
RECURSIVE FindAll(_, _, _, _, _)
FindAll(toks, pos, opens, closes, inner) ==
    LET i == FindFrom(toks, pos, opens)
        j == IF i = 0 THEN 0 ELSE FindFrom(toks, i + 1, closes)
    IN  IF i = 0 \/ j = 0 THEN <<>>
        ELSE <<IF inner THEN SubSeq(toks, i + 1, j - 1) ELSE SubSeq(toks, i, j)>>
             \o FindAll(toks, j + 1, opens, closes, inner)

\* The bracketed fragments tried before the fenced blocks
extract_json_candidates_arrays_first(text) ==
    LET code_blocks == FindAll(text, 1, {"fence_json"}, {"fence", "fence_json"}, TRUE)
        arrays == FindAll(text, 1, {"["}, {"]"}, FALSE)
        objects == FindAll(text, 1, {"{"}, {"}"}, FALSE)
    IN  arrays \o code_blocks \o objects

\* lines 110-119.  The fence that closes a fenced block may be the first
\* three characters of a following opening fence.
extract_json_candidates(text) ==
    LET code_blocks == FindAll(text, 1, {"fence_json"}, {"fence", "fence_json"}, TRUE)
        arrays == FindAll(text, 1, {"["}, {"]"}, FALSE)
        objects == FindAll(text, 1, {"{"}, {"}"}, FALSE)
    IN  code_blocks \o arrays \o objects

\* lines 185-189: the rows of the first candidate that yields any
RECURSIVE first_candidate_rows(_, _)
first_candidate_rows(cands, k) ==
    IF k > Len(cands) THEN <<>>
    ELSE LET rows == safe_parse_rows(cands[k])
         IN  IF rows # <<>> THEN rows ELSE first_candidate_rows(cands, k + 1)

\* lines 179-189: the rows call_openai_extract returns for a model output
parse_model_text(text) ==
    LET rows == safe_parse_rows(text)
    IN  IF rows # <<>> THEN rows
        ELSE first_candidate_rows(extract_json_candidates(text), 1)

\* Bound of the parser's input: the number of fragments of a text
MaxPieces == 3

RowA == <<"{", "a", ":", "1", "}">>

RowB == <<"{", "b", ":", "2", "}">>

ListA == <<"[">> \o RowA \o <<"]">>

ListB == <<"[">> \o RowB \o <<"]">>

\* A list with an element that is no mapping
MixedList == <<"[", "1", ",">> \o RowA \o <<"]">>

RowsOpen == <<"{", "rows", ":">>

\* A fenced json block that holds prose
FencedProse == <<"fence_json", "x", "fence">>

\* A fenced json block that holds a list of one row
FencedListB == <<"fence_json">> \o ListB \o <<"fence">>

\* What texts are put together from
Fragments ==
    {<<"[">>, <<"]">>, <<"{">>, <<"}">>, <<",">>, <<"1">>, <<"x">>,
     <<"fence_json">>, <<"fence">>,
     RowA, ListA, ListB, MixedList, RowsOpen, FencedProse, FencedListB}

RECURSIVE Concat(_)
Concat(ss) == IF ss = <<>> THEN <<>> ELSE Head(ss) \o Concat(Tail(ss))

Texts == {Concat(ps) : ps \in SeqsUpTo(Fragments, MaxPieces)}

ParseInit ==
    /\ ps_text \in Texts
    /\ ps_pc = "call"
    /\ ps_cands = <<>>
    /\ ps_k = 0
    /\ ps_rows = <<>>

ParseIdle ==
    /\ ps_text = <<>>
    /\ ps_pc = "idle"
    /\ ps_cands = <<>>
    /\ ps_k = 0
    /\ ps_rows = <<>>

\* lines 181-183: the direct parse yields rows
ParseDirect ==
    /\ ps_pc = "call"
    /\ safe_parse_rows(ps_text) # <<>>
    /\ ps_rows' = safe_parse_rows(ps_text)
    /\ ps_pc' = "done"
    /\ UNCHANGED <<ps_text, ps_cands, ps_k>>

\* lines 181-185: it yields none, the candidates are extracted
ParseCandidates ==
    /\ ps_pc = "call"
    /\ safe_parse_rows(ps_text) = <<>>
    /\ ps_cands' = extract_json_candidates(ps_text)
    /\ ps_k' = 1
    /\ ps_pc' = "cands"
    /\ UNCHANGED <<ps_text, ps_rows>>

\* lines 185-188: the next candidate is parsed
ParseCandidate ==
    /\ ps_pc = "cands"
    /\ ps_k <= Len(ps_cands)
    /\ LET rows == safe_parse_rows(ps_cands[ps_k])
       IN  IF rows # <<>>
           THEN ps_rows' = rows /\ ps_pc' = "done" /\ ps_k' = ps_k
           ELSE ps_rows' = ps_rows /\ ps_pc' = "cands" /\ ps_k' = ps_k + 1
    /\ UNCHANGED <<ps_text, ps_cands>>

\* line 189: no candidate yielded rows
ParseNone ==
    /\ ps_pc = "cands"
    /\ ps_k > Len(ps_cands)
    /\ ps_rows' = <<>>
    /\ ps_pc' = "done"
    /\ UNCHANGED <<ps_text, ps_cands, ps_k>>

(***************************************************************************)
(* The request model and the /extract handler                              *)
(***************************************************************************)

\* ChunkingOptions.window_size: Field(600, ge=200, le=4000)
WindowSizeDefault == 600

WindowSizeMin == 200

WindowSizeMax == 4000

\* ChunkingOptions.overlap: Field(60, ge=0, le=1000)
OverlapDefault == 60

OverlapMax == 1000

\* ExtractRequest.target_rows: Field(25, ge=1, le=2000)
TargetRowsMax == 2000

\* line 227: the character window is window_size * 10
CharsPerToken == 10

\* Bounds of the requests and pages
MaxUrls == 2

MaxTargetRows == 3

MaxExtraChars == 2

Urls == {"u1", "u2"}

\* str.lower() on the provider names
Lower(p) == IF p = "OpenAI" THEN "openai" ELSE p

\* The chunking options a request may carry: the defaults, the least window
\* without overlap and with the greatest overlap, and values out of range
ChunkingChoices ==
    {<<WindowSizeDefault, OverlapDefault>>,
     <<WindowSizeMin, 0>>,
     <<WindowSizeMin, OverlapMax>>,
     <<WindowSizeMin - 1, 0>>,
     <<WindowSizeMin, OverlapMax + 1>>}

\* The URL lists of the requests.  The handler never looks into a URL, so
\* of two lists that differ by exchanging the two names only the one that
\* begins with u1 is kept.
UrlLists == {us \in SeqsUpTo(Urls, MaxUrls) : us = <<>> \/ us[1] = "u1"}

\* The requests: every combination for the providers openai and anthropic,
\* and requests of at most one URL that spell the provider OpenAI
Requests ==
    [urls : UrlLists,
     provider : {"openai", "anthropic"},
     target_rows : (0..MaxTargetRows) \cup {TargetRowsMax + 1},
     chunking : ChunkingChoices]
    \cup
    [urls : {<<>>, <<"u1">>},
     provider : {"OpenAI"},
     target_rows : {1},
     chunking : {<<WindowSizeDefault, OverlapDefault>>}]

\* lines 25-27, 40: the field constraints pydantic checks before the handler runs
Valid(r) ==
    /\ r.chunking[1] >= WindowSizeMin
    /\ r.chunking[1] <= WindowSizeMax
    /\ r.chunking[2] >= 0
    /\ r.chunking[2] <= OverlapMax
    /\ r.target_rows >= 1
    /\ r.target_rows <= TargetRowsMax

\* math.ceil(a / b) for a >= 0, b >= 1
Ceil(a, b) == (a + b - 1) \div b

\* target_rows // len(urls): the division rounded down
per_url_target_floor(target_rows, n_urls) ==
    Max(1, target_rows \div Max(1, n_urls))

\* line 216
per_url_target_of(target_rows, n_urls) ==
    Max(1, Ceil(target_rows, Max(1, n_urls)))

\* The lengths of the cleaned text of a fetched page: empty, one least
\* window, and a few characters more
PageLens ==
    {0} \cup {WindowSizeMin * CharsPerToken + k : k \in 0..MaxExtraChars}

\* What the model may answer to a chunk: prose, a list of one row, and a
\* fenced list of two rows behind prose
ModelTexts ==
    {<<"x">>, ListA, <<"x", "fence_json", "[">> \o RowB \o <<",">> \o RowA \o <<"]", "fence">>}

\* What one call_openai_extract may meet: the client cannot be made (lines
\* 141-142 raise), the first request answers, the first raises and the
\* fallback answers, or both raise
ModelOutcomes ==
    {[client |-> FALSE, first |-> "none", second |-> "none", text |-> <<>>],
     [client |-> TRUE, first |-> "raise", second |-> "raise", text |-> <<>>]}
    \cup [client : {TRUE}, first : {"ok"}, second : {"none"}, text : ModelTexts]
    \cup [client : {TRUE}, first : {"raise"}, second : {"ok"}, text : ModelTexts]

\* A fallback that is itself tried again when it raises
provider_requests_retry(outcome) ==
    IF ~outcome.client THEN 0
    ELSE IF outcome.first # "raise" THEN 1
    ELSE IF outcome.second # "raise" THEN 2
    ELSE 3

\* lines 141-177: the requests call_openai_extract sends to the provider: none
\* without a client, one, and the fallback of lines 169-176 when that raised
provider_requests(outcome) ==
    IF ~outcome.client THEN 0
    ELSE IF outcome.first = "raise" THEN 2
    ELSE 1

\* lines 179-189 applied to each answer of the model
ParsedModelTexts == [text \in ModelTexts \cup {<<>>} |-> parse_model_text(text)]

\* lines 137-191: the rows call_openai_extract returns
call_openai_extract(outcome) ==
    IF outcome.client /\ (outcome.first = "ok" \/ outcome.second = "ok")
    THEN ParsedModelTexts[outcome.text]
    ELSE <<>>

NoCall == [client |-> FALSE, first |-> "none", second |-> "none", requests |-> 0]

NoRequest == [urls |-> <<>>, provider |-> "", target_rows |-> 0, chunking |-> <<0, 0>>]

NoResponse == [sent |-> FALSE, success |-> FALSE, results |-> <<>>, error |-> ""]

ExtractResponse(success, res, error) ==
    [sent |-> TRUE, success |-> success, results |-> res, error |-> error]

PageResult(url, rows) == [url |-> url, rows |-> rows]

Init ==
    /\ api_key \in BOOLEAN
    /\ pc = "idle"
    /\ req = NoRequest
    /\ per_url_target = 0
    /\ results = <<>>
    /\ url_i = 0
    /\ chunks = <<>>
    /\ chunk_i = 0
    /\ accumulated = <<>>
    /\ response = NoResponse
    /\ fetches = <<>>
    /\ fetch_status = <<>>
    /\ sent = 0
    /\ met_at = 0
    /\ last_call = NoCall
    /\ outputs = <<>>

\* The service is not part of the run
ExtractIdle ==
    /\ api_key = FALSE
    /\ pc = "off"
    /\ req = NoRequest
    /\ per_url_target = 0
    /\ results = <<>>
    /\ url_i = 0
    /\ chunks = <<>>
    /\ chunk_i = 0
    /\ accumulated = <<>>
    /\ response = NoResponse
    /\ fetches = <<>>
    /\ fetch_status = <<>>
    /\ sent = 0
    /\ met_at = 0
    /\ last_call = NoCall
    /\ outputs = <<>>

\* A request arrives; what the handler leaves from a request before is gone
Arrive(r) ==
    /\ req' = r
    /\ results' = <<>>
    /\ chunks' = <<>>
    /\ chunk_i' = 0
    /\ accumulated' = <<>>
    /\ fetches' = [k \in 1..Len(r.urls) |-> 0]
    /\ fetch_status' = [k \in 1..Len(r.urls) |-> "pending"]
    /\ sent' = 0
    /\ met_at' = 0
    /\ last_call' = NoCall
    /\ outputs' = <<>>
    /\ UNCHANGED api_key

\* lines 25-45: a request that breaks a field constraint never reaches the handler
RejectInvalid ==
    /\ pc = "idle"
    /\ \E r \in Requests :
        /\ Arrive(r)
        /\ ~Valid(r)
        /\ pc' = "rejected"
        /\ per_url_target' = 0
        /\ url_i' = 0
        /\ response' = NoResponse

\* lines 208-209
RejectNoUrls ==
    /\ pc = "idle"
    /\ \E r \in Requests :
        /\ Arrive(r)
        /\ Valid(r)
        /\ r.urls = <<>>
        /\ pc' = "done"
        /\ per_url_target' = 0
        /\ url_i' = 0
        /\ response' = ExtractResponse(FALSE, <<>>, "No URLs provided")

\* lines 210-212
RejectProvider ==
    /\ pc = "idle"
    /\ \E r \in Requests :
        /\ Arrive(r)
        /\ Valid(r)
        /\ r.urls # <<>>
        /\ Lower(r.provider) # "openai"
        /\ pc' = "done"
        /\ per_url_target' = 0
        /\ url_i' = 0
        /\ response' = ExtractResponse(FALSE, <<>>,
                          "Only OpenAI provider implemented in this server")

\* lines 213-214
RejectNoKey ==
    /\ pc = "idle"
    /\ \E r \in Requests :
        /\ Arrive(r)
        /\ Valid(r)
        /\ r.urls # <<>>
        /\ Lower(r.provider) = "openai"
        /\ ~api_key
        /\ pc' = "done"
        /\ per_url_target' = 0
        /\ url_i' = 0
        /\ response' = ExtractResponse(FALSE, <<>>, "OPENAI_API_KEY not set on server")

\* The handler without the check of lines 213-214
AcceptWithoutKey ==
    /\ pc = "idle"
    /\ \E r \in Requests :
        /\ Arrive(r)
        /\ Valid(r)
        /\ r.urls # <<>>
        /\ Lower(r.provider) = "openai"
        /\ per_url_target' = per_url_target_of(r.target_rows, Len(r.urls))
        /\ pc' = "urls"
        /\ url_i' = 1
        /\ response' = NoResponse

\* lines 216-217: the request is accepted and the loop over the URLs begins
Accept ==
    /\ pc = "idle"
    /\ \E r \in Requests :
        /\ Arrive(r)
        /\ Valid(r)
        /\ r.urls # <<>>
        /\ Lower(r.provider) = "openai"
        /\ api_key
        /\ per_url_target' = per_url_target_of(r.target_rows, Len(r.urls))
        /\ pc' = "urls"
        /\ url_i' = 1
        /\ response' = NoResponse

\* A URL without rows is left out of the results
FinalizeNonEmpty(rows) ==
    /\ results' = IF rows = <<>> THEN results
                  ELSE Append(results, PageResult(req.urls[url_i], rows))
    /\ url_i' = url_i + 1
    /\ pc' = "urls"

\* The rows of a URL cut down to the per-URL target
FinalizeTruncated(rows) ==
    /\ results' = Append(results, PageResult(req.urls[url_i],
                      SubSeq(rows, 1, Min(Len(rows), per_url_target))))
    /\ url_i' = url_i + 1
    /\ pc' = "urls"

\* line 224 or 244: the PageResult of the current URL is appended, on to the next
Finalize(rows) ==
    /\ results' = Append(results, PageResult(req.urls[url_i], rows))
    /\ url_i' = url_i + 1
    /\ pc' = "urls"

\* The loop over the URLs with one accumulator for all of them: line 229 is
\* missing and the rows of the URLs before stay in it.  Without html (the
FetchUrlSharedAccumulator ==
    /\ pc = "urls"
    /\ url_i <= Len(req.urls)
    /\ fetches' = [fetches EXCEPT ![url_i] = @ + 1]
    /\ sent' = 0
    /\ met_at' = 0
    /\ last_call' = NoCall
    /\ accumulated' = accumulated
    /\ outputs' = <<>>
    /\ \/ /\ \E status \in {"failed", "empty"} :
                fetch_status' = [fetch_status EXCEPT ![url_i] = status]
          /\ Finalize(<<>>)
          /\ UNCHANGED <<chunks, chunk_i>>
       \/ \E n \in PageLens :
            LET chs == chunk_spans(n, req.chunking[1] * CharsPerToken,
                                   req.chunking[2] * CharsPerToken)
            IN  /\ fetch_status' = [fetch_status EXCEPT ![url_i] = "ok"]
                /\ chunks' = chs
                /\ IF chs = <<>>
                   THEN Finalize(<<>>) /\ chunk_i' = 0
                   ELSE /\ chunk_i' = 1
                        /\ pc' = "chunks"
                        /\ UNCHANGED <<results, url_i>>
    /\ UNCHANGED <<api_key, req, per_url_target, response>>

\* lines 219-229: fetch_url returns for the next URL.  Without html (the
\* fetch failed, or the body is empty) the result is empty; else the page is
\* cleaned and chunked.
FetchUrl ==
    /\ pc = "urls"
    /\ url_i <= Len(req.urls)
    /\ fetches' = [fetches EXCEPT ![url_i] = @ + 1]
    /\ sent' = 0
    /\ met_at' = 0
    /\ last_call' = NoCall
    /\ accumulated' = <<>>
    /\ outputs' = <<>>
    /\ \/ /\ \E status \in {"failed", "empty"} :
                fetch_status' = [fetch_status EXCEPT ![url_i] = status]
          /\ Finalize(<<>>)
          /\ UNCHANGED <<chunks, chunk_i>>
       \/ \E n \in PageLens :
            LET chs == chunk_spans(n, req.chunking[1] * CharsPerToken,
                                   req.chunking[2] * CharsPerToken)
            IN  /\ fetch_status' = [fetch_status EXCEPT ![url_i] = "ok"]
                /\ chunks' = chs
                /\ IF chs = <<>>
                   THEN Finalize(<<>>) /\ chunk_i' = 0
                   ELSE /\ chunk_i' = 1
                        /\ pc' = "chunks"
                        /\ UNCHANGED <<results, url_i>>
    /\ UNCHANGED <<api_key, req, per_url_target, response>>

\* The rows of a chunk are appended and the accumulator is left as it is
merge_rows_nodedupe(acc, rows) == acc \o rows

\* lines 238-240: the rows of a chunk are merged into the accumulator
merge_rows(acc, rows) == IF rows # <<>> THEN dedupe_rows(acc \o rows) ELSE acc

\* len(accumulated) > per_url_target
target_met_strict(acc, target) == Len(acc) > target

\* line 241: the loop over the chunks ends early
target_met(acc, target) == Len(acc) >= target

\* lines 230-244: call_openai_extract returns for the next chunk
ExtractChunk ==
    /\ pc = "chunks"
    /\ chunk_i <= Len(chunks)
    /\ \E outcome \in ModelOutcomes :
         LET rows == call_openai_extract(outcome)
             acc == merge_rows(accumulated, rows)
             met == target_met(acc, per_url_target)
         IN  /\ outputs' = Append(outputs, rows)
             /\ last_call' = [client |-> outcome.client, first |-> outcome.first,
                               second |-> outcome.second,
                               requests |-> provider_requests(outcome)]
             /\ sent' = sent + 1
             /\ accumulated' = acc
             /\ met_at' = IF met THEN chunk_i ELSE met_at
             /\ IF met \/ chunk_i = Len(chunks)
                THEN Finalize(acc) /\ chunk_i' = chunk_i
                ELSE /\ chunk_i' = chunk_i + 1
                     /\ UNCHANGED <<pc, results, url_i>>
    /\ UNCHANGED <<api_key, req, per_url_target, chunks, response, fetches,
                   fetch_status>>

\* The response is returned between two URLs, the rest of them untouched
RespondEarly ==
    /\ pc = "urls"
    /\ response' = ExtractResponse(TRUE, results, "")
    /\ pc' = "done"
    /\ UNCHANGED <<api_key, req, per_url_target, results, url_i, chunks, chunk_i,
                   accumulated, fetches, fetch_status, sent, met_at, last_call,
                   outputs>>

\* line 246
Respond ==
    /\ pc = "urls"
    /\ url_i > Len(req.urls)
    /\ response' = ExtractResponse(TRUE, results, "")
    /\ pc' = "done"
    /\ UNCHANGED <<api_key, req, per_url_target, results, url_i, chunks, chunk_i,
                   accumulated, fetches, fetch_status, sent, met_at, last_call,
                   outputs>>

\* The response is out and the service waits for the next request
NextRequest ==
    /\ pc \in {"done", "rejected"}
    /\ pc' = "idle"
    /\ req' = NoRequest
    /\ per_url_target' = 0
    /\ results' = <<>>
    /\ url_i' = 0
    /\ chunks' = <<>>
    /\ chunk_i' = 0
    /\ accumulated' = <<>>
    /\ response' = NoResponse
    /\ fetches' = <<>>
    /\ fetch_status' = <<>>
    /\ sent' = 0
    /\ met_at' = 0
    /\ last_call' = NoCall
    /\ outputs' = <<>>
    /\ UNCHANGED api_key

(***************************************************************************)
(* The text of one page on its way into the prompts                        *)
(*                                                                         *)
(* A text is given by its length and a prompt by the span [from, to) of    *)
(* the text that it quotes.                                                *)
(***************************************************************************)

\* line 151: chunk[:8000]
PromptChars == 8000

\* Bound of the pages: the number of chunks of one page
MaxPromptChunks == 3

\* The chunking options within their ranges: the least and the greatest
\* values, the defaults, and the windows about PromptChars / CharsPerToken
PromptChunkings ==
    {WindowSizeMin, WindowSizeDefault, PromptChars \div CharsPerToken,
     PromptChars \div CharsPerToken + 1, 1000, WindowSizeMax}
    \X {0, OverlapDefault, OverlapMax}

\* The lengths of the cleaned text: empty, one character, and about the ends
\* of the first chunks
PromptLens(chunking) ==
    LET window == chunking[1] * CharsPerToken
        step == chunk_step(window, chunking[2] * CharsPerToken)
    IN  {0, 1} \cup {window + j * step + d : j \in 0..(MaxPromptChunks - 1), d \in {0 - 1, 0}}

\* The span of the text that chunk[:8000] is, for the chunk of the span
prompt_span(span) == <<span[1], span[1] + Min(PromptChars, span[2] - span[1])>>

PromptInit ==
    /\ pm_chunking \in PromptChunkings
    /\ pm_n \in PromptLens(pm_chunking)
    /\ pm_pc = "text"
    /\ pm_chunks = <<>>
    /\ pm_k = 0
    /\ pm_prompts = <<>>

PromptIdle ==
    /\ pm_chunking = <<0, 0>>
    /\ pm_n = 0
    /\ pm_pc = "idle"
    /\ pm_chunks = <<>>
    /\ pm_k = 0
    /\ pm_prompts = <<>>

\* line 227: the cleaned text is chunked
PromptChunk ==
    /\ pm_pc = "text"
    /\ pm_chunks' = chunk_spans(pm_n, pm_chunking[1] * CharsPerToken,
                                pm_chunking[2] * CharsPerToken)
    /\ pm_k' = 1
    /\ pm_pc' = "chunks"
    /\ UNCHANGED <<pm_chunking, pm_n, pm_prompts>>

\* lines 230-231, 149-153: the next chunk is passed to call_openai_extract,
\* which puts its first PromptChars characters into the prompt
PromptSend ==
    /\ pm_pc = "chunks"
    /\ pm_k <= Len(pm_chunks)
    /\ pm_prompts' = Append(pm_prompts, prompt_span(pm_chunks[pm_k]))
    /\ pm_k' = pm_k + 1
    /\ UNCHANGED <<pm_chunking, pm_n, pm_pc, pm_chunks>>

\* The loop of line 230 is through, no early stop
PromptDone ==
    /\ pm_pc = "chunks"
    /\ pm_k > Len(pm_chunks)
    /\ pm_pc' = "done"
    /\ UNCHANGED <<pm_chunking, pm_n, pm_chunks, pm_k, pm_prompts>>

(***************************************************************************)
(* Specifications                                                          *)
(***************************************************************************)

ChunkNext ==
    \/ ChunkWhole /\ UNCHANGED <<ddVars, psVars, exVars, pmVars>>
    \/ ChunkEnter /\ UNCHANGED <<ddVars, psVars, exVars, pmVars>>
    \/ ChunkIter /\ UNCHANGED <<ddVars, psVars, exVars, pmVars>>
    \/ ChunkExit /\ UNCHANGED <<ddVars, psVars, exVars, pmVars>>

SpecChunkInit == ChunkInit /\ DedupeIdle /\ ParseIdle /\ ExtractIdle /\ PromptIdle

SpecChunk == SpecChunkInit /\ [][ChunkNext]_vars

SpecChunkLive == SpecChunk /\ WF_vars(ChunkNext)

DedupeNext ==
    \/ DedupeCall /\ UNCHANGED <<ckVars, psVars, exVars, pmVars>>
    \/ DedupeAgain /\ UNCHANGED <<ckVars, psVars, exVars, pmVars>>

SpecDedupeInit == DedupeInit /\ ChunkIdle /\ ParseIdle /\ ExtractIdle /\ PromptIdle

SpecDedupe == SpecDedupeInit /\ [][DedupeNext]_vars

ParseNext ==
    \/ ParseDirect /\ UNCHANGED <<ckVars, ddVars, exVars, pmVars>>
    \/ ParseCandidates /\ UNCHANGED <<ckVars, ddVars, exVars, pmVars>>
    \/ ParseCandidate /\ UNCHANGED <<ckVars, ddVars, exVars, pmVars>>
    \/ ParseNone /\ UNCHANGED <<ckVars, ddVars, exVars, pmVars>>

SpecParseInit == ParseInit /\ ChunkIdle /\ DedupeIdle /\ ExtractIdle /\ PromptIdle

SpecParse == SpecParseInit /\ [][ParseNext]_vars

PromptNext ==
    \/ PromptChunk /\ UNCHANGED <<ckVars, ddVars, psVars, exVars>>
    \/ PromptSend /\ UNCHANGED <<ckVars, ddVars, psVars, exVars>>
    \/ PromptDone /\ UNCHANGED <<ckVars, ddVars, psVars, exVars>>

SpecPromptInit == PromptInit /\ ChunkIdle /\ DedupeIdle /\ ParseIdle /\ ExtractIdle

SpecPrompt == SpecPromptInit /\ [][PromptNext]_vars

Next ==
    \/ RejectInvalid /\ UNCHANGED <<ckVars, ddVars, psVars, pmVars>>
    \/ RejectNoUrls /\ UNCHANGED <<ckVars, ddVars, psVars, pmVars>>
    \/ RejectProvider /\ UNCHANGED <<ckVars, ddVars, psVars, pmVars>>
    \/ RejectNoKey /\ UNCHANGED <<ckVars, ddVars, psVars, pmVars>>
    \/ Accept /\ UNCHANGED <<ckVars, ddVars, psVars, pmVars>>
    \/ FetchUrl /\ UNCHANGED <<ckVars, ddVars, psVars, pmVars>>
    \/ ExtractChunk /\ UNCHANGED <<ckVars, ddVars, psVars, pmVars>>
    \/ Respond /\ UNCHANGED <<ckVars, ddVars, psVars, pmVars>>
    \/ NextRequest /\ UNCHANGED <<ckVars, ddVars, psVars, pmVars>>

SpecInit == Init /\ ChunkIdle /\ DedupeIdle /\ ParseIdle /\ PromptIdle

Spec == SpecInit /\ [][Next]_vars

\* A step of the handler once it has accepted a request; no two of the
\* three are enabled together
HandlerStep ==
    /\ FetchUrl \/ ExtractChunk \/ Respond
    /\ UNCHANGED <<ckVars, ddVars, psVars, pmVars>>

\* Every await of the handler returns: fetch_url (line 220) and
\* call_openai_extract (line 231) come back, and the handler runs on to its
\* return
SpecLive == Spec /\ WF_vars(HandlerStep)

(***************************************************************************)
(* Claims                                                                  *)
(***************************************************************************)

\* The loop computes what the operator chunk_text computes
ChunkLoopIsOperator ==
    ck_pc = "done" =>
        /\ ck_chunks = chunk_text(ck_text, ck_window, ck_overlap)
        /\ ck_spans = chunk_spans(Len(ck_text), ck_window, ck_overlap)

\* The first k elements of s (all of s when it is shorter)
Take(s, k) == SubSeq(s, 1, Min(k, Len(s)))

\* The first step characters of every non-final chunk, then the final chunk
RECURSIVE Reassemble(_, _)
Reassemble(cs, step) ==
    IF Len(cs) = 0 THEN <<>>
    ELSE IF Len(cs) = 1 THEN cs[1]
    ELSE Take(cs[1], step) \o Reassemble(Tail(cs), step)

\* C4: for a text of length n >= 1, window w > 0 and overlap 0 <= o < w, the
\* first chunk starts at 0, the last chunk ends at n, every position 0..n-1
\* lies in some chunk, and the first w - o characters of every non-final chunk
\* followed by the whole final chunk give back the text; w=600, o=60, n=1000
\* gives the starts 0, 540 and the last end 1000.
C4_ChunkingCoversText ==
    /\ (ck_pc = "done" /\ Len(ck_text) >= 1 /\ ck_window > 0
           /\ ck_overlap >= 0 /\ ck_overlap < ck_window) =>
        LET n == Len(ck_text)
            last == Len(ck_spans)
        IN  /\ last >= 1
            /\ Len(ck_chunks) = last
            /\ ck_spans[1][1] = 0
            /\ ck_spans[last][2] = n
            /\ \A p \in 0..(n - 1) :
                  \E k \in 1..last : ck_spans[k][1] <= p /\ p < ck_spans[k][2]
            /\ Reassemble(ck_chunks, ck_window - ck_overlap) = ck_text
    /\ chunk_spans(1000, 600, 60) = <<<<0, 600>>, <<540, 1000>>>>

\* A text cut into three or more overlapping chunks, the last one short
C4_Witness ==
    /\ ck_pc = "done"
    /\ ck_window > 0
    /\ ck_overlap > 0
    /\ ck_overlap < ck_window
    /\ Len(ck_chunks) >= 3
    /\ Len(ck_chunks[Len(ck_chunks)]) < ck_window

\* C5: chunk_text terminates for every text, window > 0 and overlap >= 0,
\* overlap >= window included: every iteration that continues the loop moves
\* start forward by step >= 1, there are at most n iterations and at most n
\* chunks, and the call returns.
C5_ChunkTextTerminates ==
    /\ [](ck_window > 0 =>
            /\ ck_iters <= Len(ck_text)
            /\ Len(ck_chunks) <= Len(ck_text))
    /\ [][(ck_pc = "loop" /\ ck_pc' = "loop") =>
            /\ ck_step = Max(1, ck_window - ck_overlap)
            /\ ck_start' = ck_start + ck_step
            /\ ck_start' > ck_start]_vars
    /\ <>(ck_pc = "done")

\* A call with overlap >= window that took three iterations and returned
C5_Witness ==
    /\ ck_pc = "done"
    /\ ck_window > 0
    /\ ck_overlap >= ck_window
    /\ ck_iters >= 3


\* Same key set and, key by key, the same values (the order of keys aside)
RECURSIVE StructEq(_, _)
StructEq(v, w) ==
    /\ v.t = w.t
    /\ CASE v.t = "scalar" -> v.s = w.s
         [] v.t = "list" ->
              /\ Len(v.items) = Len(w.items)
              /\ \A i \in 1..Len(v.items) : StructEq(v.items[i], w.items[i])
         [] OTHER ->
              /\ {v.keys[i] : i \in 1..Len(v.keys)} = {w.keys[j] : j \in 1..Len(w.keys)}
              /\ \A i \in 1..Len(v.keys) : \A j \in 1..Len(w.keys) :
                    v.keys[i] = w.keys[j] => StructEq(v.items[i], w.items[j])

\* The rows at the indices of their first structural occurrence, in order
RECURSIVE FirstOccurrences(_, _)
FirstOccurrences(rows, k) ==
    IF k > Len(rows) THEN <<>>
    ELSE (IF \E j \in 1..(k - 1) : StructEq(rows[j], rows[k])
          THEN <<>> ELSE <<rows[k]>>)
         \o FirstOccurrences(rows, k + 1)

\* C7: dedupe_rows keeps exactly the first occurrence of each structurally
\* distinct row, in the original order: no two output rows are structurally
\* equal, every input row is structurally equal to an output row, and
\* deduplicating the output again returns it unchanged.
C7_DedupeStableIdempotent ==
    /\ dd_pc \in {"once", "twice"} =>
        /\ dd_out = FirstOccurrences(dd_rows, 1)
        /\ \A i \in 1..Len(dd_out) : \A j \in 1..Len(dd_out) :
              StructEq(dd_out[i], dd_out[j]) => i = j
        /\ \A i \in 1..Len(dd_rows) :
              \E j \in 1..Len(dd_out) : StructEq(dd_rows[i], dd_out[j])
    /\ dd_pc = "twice" => dd_out2 = dd_out

\* Three rows, the first and third the same mapping written in two key orders
C7_Witness ==
    /\ dd_pc = "twice"
    /\ Len(dd_rows) = 3
    /\ Len(dd_out) = 2
    /\ dd_rows[1] # dd_rows[3]
    /\ StructEq(dd_rows[1], dd_rows[3])
    /\ dd_out = <<dd_rows[1], dd_rows[2]>>

\* The stepwise parse computes what the operator parse_model_text computes
ParseStepsAreOperator ==
    ps_pc = "done" => ps_rows = parse_model_text(ps_text)

\* C6: for any model output the parse is always at one of its steps, never in
\* an error (while candidates are tried, either the next one is parsed or
\* the empty result is returned), and what it returns is a sequence of rows,
\* possibly empty, whose every element is a key-value mapping; the empty
\* text, prose, a scalar, a list of non-mappings and malformed JSON give the
\* empty sequence.
C6_ParserTotal ==
    /\ ps_pc \in {"call", "cands", "done"}
    /\ ps_pc = "cands" => ps_k \in 1..(Len(ps_cands) + 1)
    /\ DOMAIN ps_rows = 1..Len(ps_rows)
    /\ \A i \in 1..Len(ps_rows) : ps_rows[i].t = "dict"
    /\ (ps_pc = "done"
           /\ ps_text \in {<<>>, <<"x", "x">>, <<"1">>, <<"[", "1", "]">>, <<"[", "{">>})
        => ps_rows = <<>>

\* The output [1, {"a": 1}] was parsed: the row is kept, the number dropped
C6_Witness ==
    /\ ps_pc = "done"
    /\ ps_text = MixedList
    /\ ps_rows = <<Dict(<<"a">>, <<Scalar("1")>>)>>

\* The request being served passed validation and the checks of lines 208-214
Accepted ==
    /\ Valid(req)
    /\ req.urls # <<>>
    /\ Lower(req.provider) = "openai"
    /\ api_key

\* C1: a request with a non-empty URL list, provider openai and a credential
\* is answered, whatever the fetches and model calls did, with success=true
\* and one PageResult per URL entry in the order of the input (result k
\* carries url k, duplicates included); a URL whose fetch failed has an empty
\* row list, and every URL was fetched.  While the request is served the
\* results hold one PageResult for each URL entry before the current one.
C1_OnePageResultPerUrl ==
    /\ (pc \in {"urls", "chunks"}) =>
        /\ Accepted
        /\ Len(results) = url_i - 1
        /\ \A k \in 1..Len(results) : results[k].url = req.urls[k]
    /\ (pc = "done" /\ Accepted) =>
        /\ response.sent
        /\ response.success
        /\ Len(response.results) = Len(req.urls)
        /\ \A k \in 1..Len(req.urls) :
              /\ response.results[k].url = req.urls[k]
              /\ fetches[k] = 1
              /\ fetch_status[k] \in {"failed", "empty", "ok"}
              /\ fetch_status[k] # "ok" => response.results[k].rows = <<>>

\* Two entries of the same URL: the fetch of the first failed, the second
\* was fetched and gave rows
C1_Witness ==
    /\ pc = "done"
    /\ response.success
    /\ req.urls = <<"u1", "u1">>
    /\ fetch_status = <<"failed", "ok">>
    /\ response.results[1].rows = <<>>
    /\ response.results[2].rows # <<>>

\* C2: an empty URL list, a provider other than openai or an absent
\* credential fails the whole request: success=false, a non-empty error, no
\* results, and no fetch and no model call for any URL.
C2_RequestLevelError ==
    (pc = "done"
       /\ (req.urls = <<>> \/ Lower(req.provider) # "openai" \/ ~api_key)) =>
        /\ response.sent
        /\ ~response.success
        /\ response.error # ""
        /\ response.results = <<>>
        /\ results = <<>>
        /\ \A k \in 1..Len(req.urls) : fetches[k] = 0 /\ fetch_status[k] = "pending"
        /\ sent = 0
        /\ last_call = NoCall

\* A request for two URLs, provider openai, refused for the absent credential
C2_Witness ==
    /\ pc = "done"
    /\ ~api_key
    /\ Len(req.urls) = 2
    /\ req.provider = "openai"
    /\ ~response.success
    /\ response.error = "OPENAI_API_KEY not set on server"

\* C3: the chunks of a URL go to the model one at a time from left to right
\* (the next one is chunk number sent + 1) and only while the accumulator is
\* below the per-URL target; once the target is met after a chunk no later
\* chunk of the URL is sent, so a first chunk that meets it is the only one.
C3_EarlyStop ==
    /\ pc = "chunks" =>
        /\ chunk_i = sent + 1
        /\ chunk_i <= Len(chunks)
        /\ met_at = 0
        /\ Len(accumulated) < per_url_target
    /\ met_at # 0 =>
        /\ sent = met_at
        /\ Len(accumulated) >= per_url_target
    /\ (met_at = 0 /\ pc \in {"urls", "done"} /\ sent > 0) =>
        /\ sent = Len(chunks)
        /\ Len(accumulated) < per_url_target

\* The first of three chunks met the target and the URL was closed after
\* that one call
C3_Witness ==
    /\ pc = "urls"
    /\ Len(chunks) = 3
    /\ met_at = 1
    /\ sent = 1
    /\ per_url_target = 2
    /\ Len(accumulated) = 2

\* C8: the per-URL target is the least integer t >= 1 with t * U >= R for
\* the request's target R and URL count U (R=25, U=4 gives 7; R=1, U=1
\* gives 1); it has that value in every state of the handler, whichever URL
\* is being processed and whatever rows the earlier URLs produced.
C8_PerUrlTarget ==
    /\ (pc \in {"urls", "chunks"} \/ (pc = "done" /\ response.success)) =>
        LET R == req.target_rows
            U == Len(req.urls)
        IN  /\ R >= 1
            /\ U >= 1
            /\ per_url_target >= 1
            /\ per_url_target * U >= R
            /\ (per_url_target - 1) * U < R
    /\ per_url_target_of(25, 4) = 7
    /\ per_url_target_of(1, 1) = 1

\* The second of two URLs is processed with the target 2 = ceil(3 / 2) though
\* the first URL produced no rows
C8_Witness ==
    /\ pc = "chunks"
    /\ url_i = 2
    /\ req.target_rows = 3
    /\ per_url_target = 2
    /\ results[1].rows = <<>>

\* C9 as stated: every URL entry is fetched exactly once and every processed
\* chunk causes exactly one call to the extraction model, also when that
\* call fails with a provider error.
C9_OneModelRequestPerChunk ==
    /\ \A k \in 1..Len(fetches) : fetches[k] <= 1
    /\ (pc = "done" /\ response.success) => \A k \in 1..Len(fetches) : fetches[k] = 1
    /\ (sent > 0 /\ last_call.client) => last_call.requests = 1

\* C9, amended: every URL entry is fetched exactly once and every processed
\* chunk is passed to call_openai_extract exactly once; that call sends one
\* request to the model, and a second one exactly when the first raised; it
\* sends none only when the client cannot be made.
C9_NoRetryButOneFallback ==
    /\ \A k \in 1..Len(fetches) :
          fetches[k] = IF pc \in {"urls", "chunks", "done"}
                          /\ (k < url_i \/ (k = url_i /\ pc = "chunks"))
                       THEN 1 ELSE 0
    /\ pc = "chunks" => sent = chunk_i - 1
    /\ sent <= Len(chunks)
    /\ sent > 0 =>
        /\ last_call.requests \in 0..2
        /\ last_call.requests = 0 <=> ~last_call.client
        /\ last_call.requests = 2 <=> (last_call.client /\ last_call.first = "raise")
    /\ sent = 0 => last_call = NoCall

\* The first request for a chunk raised, the fallback raised too: two requests
\* went to the provider for the one chunk
C9_Witness ==
    /\ sent = 1
    /\ last_call.first = "raise"
    /\ last_call.second = "raise"
    /\ last_call.requests = 2
    /\ fetches[url_i - (IF pc = "urls" THEN 1 ELSE 0)] = 1

\* C10: a request that reaches the chunking step (its page was fetched and
\* chunked) has overlap strictly below window_size, so chunk_text was not run
\* with its step clamped to 1.
C10_OverlapBelowWindow ==
    (pc = "chunks" \/ chunks # <<>>) =>
        /\ req.chunking[2] < req.chunking[1]
        /\ chunk_step(req.chunking[1] * CharsPerToken, req.chunking[2] * CharsPerToken)
             = (req.chunking[1] - req.chunking[2]) * CharsPerToken

\* No two rows of the sequence are structurally equal
NoDuplicates(rows) ==
    \A i, j \in 1..Len(rows) : i # j => ~StructEq(rows[i], rows[j])

IsPrefix(s, t) == Len(s) <= Len(t) /\ SubSeq(t, 1, Len(s)) = s

\* C11: after each processed chunk of a URL the accumulator is dedupe(previous
\* accumulator followed by the rows parsed from that chunk); so the accumulator
\* never holds structural duplicates, the previous accumulator is a prefix of
\* the new one, and a chunk that yields no rows leaves the accumulator as it
\* was and the next chunk, if there is one, is processed.
C11_AccumulatorStep ==
    /\ [](NoDuplicates(accumulated))
    /\ [][(pc = "chunks" /\ sent' = sent + 1) =>
            LET rows == outputs'[sent']
            IN  /\ outputs' = Append(outputs, rows)
                /\ Len(outputs') = sent'
                /\ accumulated' = dedupe_rows(accumulated \o rows)
                /\ IsPrefix(accumulated, accumulated')
                /\ Len(accumulated') >= Len(accumulated)
                /\ rows = <<>> =>
                      /\ accumulated' = accumulated
                      /\ chunk_i < Len(chunks) =>
                            (pc' = "chunks" /\ chunk_i' = chunk_i + 1)]_vars

\* A URL whose first chunk gave a row, whose second gave none and whose third
\* gave two rows, one of them the row of the first chunk: two rows are kept
C11_Witness ==
    /\ Len(outputs) = 3
    /\ Len(outputs[1]) = 1
    /\ outputs[2] = <<>>
    /\ Len(outputs[3]) = 2
    /\ \E k \in 1..2 : StructEq(outputs[3][k], outputs[1][1])
    /\ sent = 3
    /\ Len(accumulated) = 2

\* What a parsed value contributes: of a list its mappings, of a mapping the
\* mappings of the list under its key rows, of anything else nothing
Contribution(parsed) ==
    CASE parsed.t = "list" -> SelectSeq(parsed.items, IsDict)
      [] parsed.t = "dict" ->
           LET at == {i \in 1..Len(parsed.keys) : parsed.keys[i] = "rows"}
           IN  IF at # {} /\ (\A i \in at : parsed.items[i].t = "list")
               THEN SelectSeq(parsed.items[CHOOSE i \in at : TRUE].items, IsDict)
               ELSE <<>>
      [] OTHER -> <<>>

\* C12: when the direct parse of the whole text yields rows they are the
\* result; otherwise the candidates are all fenced json blocks, then all
\* bracketed fragments, then all brace fragments, each group in order of
\* occurrence, and the result is the contribution of the first candidate
\* whose contribution is non-empty, or empty when there is none.
C12_FirstSuccessWins ==
    ps_pc = "done" =>
        LET direct == Contribution(json_loads(ps_text))
            cands == FindAll(ps_text, 1, {"fence_json"}, {"fence", "fence_json"}, TRUE)
                     \o FindAll(ps_text, 1, {"["}, {"]"}, FALSE)
                     \o FindAll(ps_text, 1, {"{"}, {"}"}, FALSE)
            hits == {k \in 1..Len(cands) : Contribution(json_loads(cands[k])) # <<>>}
        IN  IF direct # <<>> THEN ps_rows = direct
            ELSE IF hits = {} THEN ps_rows = <<>>
            ELSE LET k == CHOOSE h \in hits : \A j \in hits : h <= j
                 IN  /\ ps_cands = cands
                     /\ ps_k = k
                     /\ ps_rows = Contribution(json_loads(cands[k]))

\* The text is no JSON value, its first candidate yields nothing, a later one
\* is the result, and a candidate behind that one would have given other rows
C12_Witness ==
    /\ ps_pc = "done"
    /\ json_loads(ps_text) = JsonError
    /\ ps_k >= 2
    /\ ps_rows # <<>>
    /\ \E j \in (ps_k + 1)..Len(ps_cands) :
          Contribution(json_loads(ps_cands[j])) \notin {<<>>, ps_rows}

\* C13: for window w > 0 the k-th chunk, counting from 0, is
\* text[k*step : min(n, k*step + w)] with step = max(1, w - overlap); no chunk
\* is longer than w, every chunk but the last has length w, the starts grow
\* strictly, and no chunk is empty; for w <= 0 the result is the one chunk
\* that is the whole text, empty only when the text is.
C13_ChunkShape ==
    ck_pc = "done" =>
        LET n == Len(ck_text)
            w == ck_window
            step == IF w - ck_overlap >= 1 THEN w - ck_overlap ELSE 1
            last == Len(ck_chunks)
        IN  IF w > 0
            THEN /\ Len(ck_spans) = last
                 /\ \A k \in 1..last :
                       LET from == (k - 1) * step
                           to == IF from + w <= n THEN from + w ELSE n
                       IN  /\ ck_spans[k] = <<from, to>>
                           /\ ck_chunks[k] = [i \in 1..(to - from) |-> ck_text[from + i]]
                           /\ Len(ck_chunks[k]) <= w
                           /\ k < last => Len(ck_chunks[k]) = w
                           /\ k > 1 => ck_spans[k][1] > ck_spans[k - 1][1]
                           /\ ck_chunks[k] # <<>>
                 /\ n = 0 => last = 0
            ELSE /\ ck_chunks = <<ck_text>>
                 /\ ck_chunks[1] = <<>> => ck_text = <<>>

\* A text cut without overlap into two or more chunks, the last one short
C13_Witness ==
    /\ ck_pc = "done"
    /\ ck_window > 0
    /\ ck_overlap = 0
    /\ Len(ck_chunks) >= 2
    /\ Len(ck_chunks[Len(ck_chunks)]) < ck_window
    /\ Len(ck_chunks[1]) = ck_window

\* C14: the per-URL target is no hard cap.  A chunk of a URL is passed to the
\* model only while the URL's accumulator holds fewer rows than the per-URL
\* target; the rows of the finalized PageResult are the accumulator, not
\* truncated; they exceed the target by no more than the rows of the last
\* processed chunk, and are below it only when the chunks were exhausted.
C14_TargetAdvisory ==
    /\ [][sent' = sent + 1 =>
            /\ pc = "chunks"
            /\ Len(accumulated) < per_url_target]_vars
    /\ [][(pc = "chunks" /\ Len(results') = Len(results) + 1) =>
            /\ results'[Len(results')].rows = accumulated'
            /\ Len(accumulated') - per_url_target <= Len(outputs'[sent'])
            /\ Len(accumulated') < per_url_target => chunk_i = Len(chunks)]_vars

\* Two URLs are finalized: the first with more rows than the per-URL target,
\* the second, all of whose chunks were processed, with fewer
C14_Witness ==
    /\ pc = "urls"
    /\ Len(results) = 2
    /\ Len(results[1].rows) > per_url_target
    /\ fetch_status[2] = "ok"
    /\ outputs # <<>>
    /\ Len(results[2].rows) < per_url_target

\* What one URL entry on its own yields: its chunks' rows merged in order from
\* an empty accumulator until the target is met; used counts the chunks taken
RECURSIVE own_rows(_, _, _, _)
own_rows(outs, k, acc, target) ==
    IF k > Len(outs) THEN [rows |-> acc, used |-> k - 1]
    ELSE LET next == IF outs[k] # <<>> THEN dedupe_rows(acc \o outs[k]) ELSE acc
         IN  IF Len(next) >= target THEN [rows |-> next, used |-> k]
             ELSE own_rows(outs, k + 1, next, target)

\* C15: the rows of the PageResult of URL entry i are a function of that
\* entry's own fetch result, its own chunks' model outputs and the per-URL
\* target, whatever the other entries met: so runs that differ only in the
\* outcomes of other entries give entry i the same rows, and a row found under
\* two URLs stays in both PageResults.  A PageResult, once appended, stays.
C15_NoCrossUrlSharing ==
    /\ [](pc = "chunks" =>
            accumulated = own_rows(outputs, 1, <<>>, per_url_target).rows)
    /\ [][(pc = "urls" \/ pc = "chunks") =>
            /\ Len(results') >= Len(results)
            /\ SubSeq(results', 1, Len(results)) = results
            /\ Len(results') = Len(results) + 1 =>
                  LET own == own_rows(outputs', 1, <<>>, per_url_target)
                  IN  /\ own.used = Len(outputs')
                      /\ results'[Len(results')].rows =
                            IF fetch_status'[url_i] = "ok" THEN own.rows ELSE <<>>
                      /\ fetch_status'[url_i] # "ok" => outputs' = <<>>
                      /\ pc = "urls" => outputs' = <<>>]_vars

\* Two URL entries whose PageResults hold the same row, the second besides a
\* row the first does not hold
C15_Witness ==
    /\ Len(results) = 2
    /\ Len(results[1].rows) = 1
    /\ Len(results[2].rows) = 2
    /\ \E k \in 1..2 : StructEq(results[2].rows[k], results[1].rows[1])

\* Where URL entry i of the request stands.  Cleaning and Chunking (lines
\* 226-227) do not suspend: an entry passes them within the step that ends
\* its fetch.
url_state(i) ==
    IF url_i < i THEN "Pending"
    ELSE IF url_i = i THEN (IF pc = "urls" THEN "Fetching" ELSE "ExtractingChunk")
    ELSE IF fetch_status[i] = "ok" THEN "Accumulated"
    ELSE "FetchFailed"

UrlMoves ==
    {<<"Pending", "Pending">>, <<"Pending", "Fetching">>,
     <<"Fetching", "Fetching">>, <<"Fetching", "FetchFailed">>,
     <<"Fetching", "ExtractingChunk">>, <<"Fetching", "Accumulated">>,
     <<"ExtractingChunk", "ExtractingChunk">>, <<"ExtractingChunk", "Accumulated">>,
     <<"FetchFailed", "FetchFailed">>, <<"Accumulated", "Accumulated">>}

AllUrlsTerminal ==
    \A i \in 1..Len(req.urls) : url_state(i) \in {"FetchFailed", "Accumulated"}

\* C16: while an accepted request is served each URL entry moves only along
\* Pending, Fetching, then FetchFailed (terminal, no rows, no model call) or,
\* through cleaning and chunking, zero or more ExtractingChunk steps and
\* Accumulated (terminal); a URL has no more extraction steps than chunks; the
\* response is produced only when every entry is terminal; and when every
\* fetch and model call returns, every entry becomes terminal and the
\* response is produced.
C16_UrlStateMachine ==
    /\ [][(Accepted /\ req' = req) =>
            \A i \in 1..Len(req.urls) :
                /\ <<url_state(i), url_state(i)'>> \in UrlMoves
                /\ (url_state(i) = "Fetching" /\ url_state(i)' = "Accumulated")
                      => (chunks' = <<>> /\ sent' = 0)
                /\ (url_state(i) = "Fetching" /\ url_state(i)' = "FetchFailed")
                      => (sent' = 0 /\ outputs' = <<>>)]_vars
    /\ [][sent' = sent + 1 =>
            /\ url_state(url_i) = "ExtractingChunk"
            /\ sent' <= Len(chunks)
            /\ Len(outputs') = sent']_vars
    /\ [](Accepted =>
            /\ \A i \in 1..Len(req.urls) :
                  /\ url_state(i) = "FetchFailed" => results[i].rows = <<>>
                  /\ url_state(i) \in {"FetchFailed", "Accumulated"} <=> i <= Len(results)
            /\ response.sent => AllUrlsTerminal)
    /\ (pc = "urls" \/ pc = "chunks") ~> (response.sent /\ AllUrlsTerminal)

\* The response of a request of two URLs: the first failed to fetch, the second
\* went through two extraction steps
C16_Witness ==
    /\ response.sent
    /\ Len(req.urls) = 2
    /\ url_state(1) = "FetchFailed"
    /\ url_state(2) = "Accumulated"
    /\ Len(outputs) = 2

\* C17: the prompt of a chunk quotes the chunk's first 8000 characters at
\* most, the chunks are cut with character window window_size * 10 and
\* overlap * 10, and when all chunks of a URL are processed every character
\* position of the cleaned text is quoted by some prompt, for every
\* window_size in 200..4000 and overlap in 0..1000.
C17_ModelSeesWholeText ==
    (/\ pm_pc = "done"
     /\ pm_chunking[1] \in WindowSizeMin..WindowSizeMax
     /\ pm_chunking[2] \in 0..OverlapMax) =>
        /\ pm_chunks = chunk_spans(pm_n, pm_chunking[1] * 10, pm_chunking[2] * 10)
        /\ Len(pm_prompts) = Len(pm_chunks)
        /\ \A k \in 1..Len(pm_chunks) :
              /\ pm_prompts[k][1] = pm_chunks[k][1]
              /\ pm_prompts[k][2] <= pm_chunks[k][2]
              /\ pm_prompts[k][2] - pm_prompts[k][1] <= 8000
              /\ pm_prompts[k][2] - pm_prompts[k][1] = 8000
                    \/ pm_prompts[k][2] = pm_chunks[k][2]
        /\ \A p \in 0..(pm_n - 1) :
              \E k \in 1..Len(pm_prompts) :
                  pm_prompts[k][1] <= p /\ p < pm_prompts[k][2]

=============================================================================
